---- MODULE Spec2Model ----
(***************************************************************************)
(* Model of backend/ask_service.py: build_context, _collapse_skill_lines   *)
(* and answer_question.                                                    *)
(*                                                                         *)
(* A Python str is a sequence of symbols.  A symbol is a single character  *)
(* ("a", " ", ",", "\n", ...) or, for the fixed text the code writes       *)
(* itself ("## Profile", "Name:", ...), one literal fragment that holds no *)
(* whitespace at either end and no newline.  Lengths are only ever taken   *)
(* of strings made of single characters.                                   *)
(***************************************************************************)
EXTENDS Integers, Sequences, FiniteSets, TLC

VARIABLES
    \* _collapse_skill_lines
    text, lines, i, out, cpc, pass, first, collapsed,
    \* build_context
    data, parts, bpc, context,
    \* answer_question
    api_key, question, history, pc, user_content, response, requests, error, answer

collapseVars == <<text, lines, i, out, cpc, pass, first, collapsed>>
contextVars == <<data, parts, bpc, context>>
answerVars == <<api_key, question, history, pc, user_content, response, requests, error, answer>>
vars == <<collapseVars, contextVars, answerVars>>

-----------------------------------------------------------------------------
(* Bounds of the model *)

MaxLines == 4

(* Program constants *)

HeaderMaxLen == 45
ItemMaxLen == 55
MinRun == 3

-----------------------------------------------------------------------------
(* str primitives *)

NL == "\n"
WS == {" ", "\t", "\n"}

MinOf(S) == CHOOSE x \in S : \A y \in S : x <= y
MaxOf(S) == CHOOSE x \in S : \A y \in S : x >= y

\* str.strip(): drop the whitespace at both ends
Strip(s) ==
    LET keep == {k \in 1..Len(s) : s[k] \notin WS}
    IN  IF keep = {} THEN <<>> ELSE SubSeq(s, MinOf(keep), MaxOf(keep))

\* c in s
HasChar(s, c) == \E k \in 1..Len(s) : s[k] = c

\* str.startswith(("-", "*", "#"))
StartsWithMark(s) == Len(s) > 0 /\ s[1] \in {"-", "*", "#"}

RECURSIVE SplitOn(_, _)
\* s.split(sep) for the one-symbol separators of a set seps
SplitOn(s, seps) ==
    LET at == {k \in 1..Len(s) : s[k] \in seps}
    IN  IF at = {} THEN <<s>>
        ELSE <<SubSeq(s, 1, MinOf(at) - 1)>>
                 \o SplitOn(SubSeq(s, MinOf(at) + 1, Len(s)), seps)

RECURSIVE Flatten(_)
\* "".join(ss)
Flatten(ss) == IF ss = <<>> THEN <<>> ELSE Head(ss) \o Flatten(Tail(ss))

RECURSIVE JoinWith(_, _)
\* sep.join(ss)
JoinWith(ss, sep) ==
    IF ss = <<>> THEN <<>>
    ELSE IF Len(ss) = 1 THEN ss[1]
    ELSE ss[1] \o sep \o JoinWith(Tail(ss), sep)

-----------------------------------------------------------------------------
(* _collapse_skill_lines *)

\* text.split(): the words of the text, in place of its lines
SplitLinesAnyWhitespace(t) == SelectSeq(SplitOn(t, WS), LAMBDA w : w # <<>>)

\* lines = text.split("\n")
SplitLines(t) == SplitOn(t, {NL})

\* the section-header test of the scan
IsHeaderLine(stripped) ==
    /\ stripped # <<>>
    /\ HasChar(stripped, " ")
    /\ Len(stripped) < HeaderMaxLen
    /\ ~StartsWithMark(stripped)

\* looks_like_single_item
LooksLikeSingleItem(stripped) ==
    /\ stripped # <<>>
    /\ ~StartsWithMark(stripped)
    /\ ~HasChar(stripped, ",")
    /\ Len(stripped) < ItemMaxLen

\* the two break tests of the inner loop, negated
RunContinues(next_ln) ==
    /\ ~(next_ln = <<>> \/ StartsWithMark(next_ln))
    /\ ~(HasChar(next_ln, ",") \/ Len(next_ln) > ItemMaxLen)

\* the value of j when the inner loop ends
RunEnd(ls, at) ==
    MinOf({j \in (at + 1)..(Len(ls) + 1) :
              j = Len(ls) + 1 \/ ~RunContinues(Strip(ls[j]))})

\* run, when the inner loop ends
RunOf(ls, at) == [k \in 1..(RunEnd(ls, at) - at) |-> Strip(ls[at + k - 1])]

\* len(run) >= 3 with a threshold of 2
RunIsLongEnoughTwo(run) == Len(run) >= MinRun - 1

\* len(run) >= 3
RunIsLongEnough(run) == Len(run) >= MinRun

\* ", ".join(run)
JoinRun(run) == JoinWith(run, <<",", " ">>)

\* the branch the loop body takes at line `at`
Branch(ls, at) ==
    LET stripped == Strip(ls[at])
    IN  IF IsHeaderLine(stripped) THEN "header"
        ELSE IF LooksLikeSingleItem(stripped) /\ RunIsLongEnough(RunOf(ls, at))
             THEN "merge"
        ELSE "plain"

\* one iteration of the outer loop: the new i and out
ScanStep(ls, at, o) ==
    IF Branch(ls, at) = "merge"
    THEN [i |-> RunEnd(ls, at), out |-> Append(o, JoinRun(RunOf(ls, at)))]
    ELSE [i |-> at + 1, out |-> Append(o, ls[at])]

RECURSIVE ScanFrom(_, _, _)
\* the outer loop, from line `at` to the end
ScanFrom(ls, at, o) ==
    IF at > Len(ls) THEN o
    ELSE ScanFrom(ls, ScanStep(ls, at, o).i, ScanStep(ls, at, o).out)

\* _collapse_skill_lines(text)
collapse_skill_lines(t) == JoinWith(ScanFrom(SplitLines(t), 1, <<>>), <<NL>>)

(* Inputs of the normalizer *)

LineOf(n, spaceAt) == [k \in 1..n |-> IF k = spaceAt THEN " " ELSE "x"]

LinePool ==
    { <<>>,
      <<" ", "b", "\t">>,
      <<"c", " ", "d">>,
      <<"-", " ", "e">>,
      <<"f", ",", "g">>,
      LineOf(ItemMaxLen, 0),
      LineOf(HeaderMaxLen, 2) }

TextPool ==
    { JoinWith(ls, <<NL>>) : ls \in UNION { [1..n -> LinePool] : n \in 1..MaxLines } }

CollapseIdle ==
    /\ text = <<>> /\ lines = <<>> /\ i = 1 /\ out = <<>>
    /\ cpc = "idle" /\ pass = 1 /\ first = <<>> /\ collapsed = <<>>

CollapseInit ==
    /\ text \in TextPool
    /\ lines = <<>> /\ i = 1 /\ out = <<>>
    /\ cpc = "split" /\ pass = 1 /\ first = <<>> /\ collapsed = <<>>

CollapseSplit ==
    /\ cpc = "split"
    /\ lines' = SplitLines(text)
    /\ i' = 1
    /\ out' = <<>>
    /\ cpc' = "scan"
    /\ UNCHANGED <<text, pass, first, collapsed>>
    /\ UNCHANGED <<contextVars, answerVars>>

EmitHeader ==
    /\ cpc = "scan" /\ i <= Len(lines)
    /\ Branch(lines, i) = "header"
    /\ i' = ScanStep(lines, i, out).i
    /\ out' = ScanStep(lines, i, out).out
    /\ UNCHANGED <<text, lines, cpc, pass, first, collapsed>>
    /\ UNCHANGED <<contextVars, answerVars>>

MergeRun ==
    /\ cpc = "scan" /\ i <= Len(lines)
    /\ Branch(lines, i) = "merge"
    /\ i' = ScanStep(lines, i, out).i
    /\ out' = ScanStep(lines, i, out).out
    /\ UNCHANGED <<text, lines, cpc, pass, first, collapsed>>
    /\ UNCHANGED <<contextVars, answerVars>>

EmitLine ==
    /\ cpc = "scan" /\ i <= Len(lines)
    /\ Branch(lines, i) = "plain"
    /\ i' = ScanStep(lines, i, out).i
    /\ out' = ScanStep(lines, i, out).out
    /\ UNCHANGED <<text, lines, cpc, pass, first, collapsed>>
    /\ UNCHANGED <<contextVars, answerVars>>

CollapseReturn ==
    /\ cpc = "scan" /\ i > Len(lines)
    /\ collapsed' = JoinWith(out, <<NL>>)
    /\ cpc' = "done"
    /\ UNCHANGED <<text, lines, i, out, pass, first>>
    /\ UNCHANGED <<contextVars, answerVars>>

\* the function applied to its own result
CollapseAgain ==
    /\ cpc = "done" /\ pass = 1
    /\ first' = collapsed
    /\ text' = collapsed
    /\ pass' = 2
    /\ cpc' = "split"
    /\ lines' = <<>> /\ i' = 1 /\ out' = <<>> /\ collapsed' = <<>>
    /\ UNCHANGED <<contextVars, answerVars>>

-----------------------------------------------------------------------------
(* Properties of _collapse_skill_lines *)

\* a step of the outer loop
IsScanStep == cpc = "scan" /\ cpc' = "scan" /\ i <= Len(lines) /\ i' # i

\* header-like, as the specification words it
HeaderLike(line) ==
    LET s == Strip(line)
    IN  /\ Len(s) > 0
        /\ \E k \in 1..Len(s) : s[k] = " "
        /\ Len(s) < HeaderMaxLen
        /\ s[1] \notin {"-", "*", "#"}

\* a candidate start line, as the specification words it
CandidateStart(line) ==
    LET s == Strip(line)
    IN  /\ ~HeaderLike(line)
        /\ Len(s) > 0
        /\ s[1] \notin {"-", "*", "#"}
        /\ \A k \in 1..Len(s) : s[k] # ","
        /\ Len(s) < ItemMaxLen

\* what the specification requires of a line collected after the start
Collectable(line) ==
    LET s == Strip(line)
    IN  /\ Len(s) > 0
        /\ s[1] \notin {"-", "*", "#"}
        /\ \A k \in 1..Len(s) : s[k] # ","
        /\ Len(s) < ItemMaxLen

\* a line that ends the collection in the code
Stops(line) ==
    LET s == Strip(line)
    IN  \/ Len(s) = 0
        \/ s[1] \in {"-", "*", "#"}
        \/ \E k \in 1..Len(s) : s[k] = ","
        \/ Len(s) > ItemMaxLen

\* k: the number of lines of the run collected from line `at`
Collected(ls, at) ==
    CHOOSE k \in 1..(Len(ls) - at + 1) :
        /\ \A m \in 1..(k - 1) : ~Stops(ls[at + m])
        /\ at + k <= Len(ls) => Stops(ls[at + k])

\* the trimmed lines at..at+k-1 joined by ", "
Joined(ls, at, k) ==
    IF k = 1 THEN Strip(ls[at])
    ELSE Flatten([m \in 1..(2 * k - 1) |->
                     IF m % 2 = 1 THEN Strip(ls[at + (m - 1) \div 2]) ELSE <<",", " ">>])

\* C5: every header-like line is emitted unchanged as its own output line and
\* is never a member of a merged run, wherever it occurs in the input.
C5_HeaderNeverMerged ==
    [][IsScanStep =>
          \A idx \in i..(i' - 1) :
              HeaderLike(lines[idx]) =>
                  /\ i' = i + 1
                  /\ out' = Append(out, lines[idx])]_vars

\* C6: from a candidate start whose collected run has k lines, k >= 3 replaces
\* the k lines by one line, their trimmed contents joined by ", ", and the scan
\* resumes after the last of them; k < 3 emits the candidate alone, unchanged,
\* and advances by one line, so that the second line of a run of two is
\* emitted as a line of its own.
C6_MergeThreshold ==
    [][(cpc = "scan" /\ cpc' = "scan" /\ i <= Len(lines)) =>
          /\ CandidateStart(lines[i]) =>
                LET k == Collected(lines, i)
                IN  IF k >= MinRun
                    THEN /\ out' = Append(out, Joined(lines, i, k))
                         /\ i' = i + k
                    ELSE /\ out' = Append(out, lines[i])
                         /\ i' = i + 1
          /\ (i > 1 /\ CandidateStart(lines[i - 1]) /\ Collected(lines, i - 1) = 2) =>
                /\ out' = Append(out, lines[i])
                /\ out[Len(out)] = lines[i - 1]
                /\ i' = i + 1]_vars

\* C6 witness: a run of three or more lines has just been merged
C6_Witness ==
    /\ cpc = "scan"
    /\ \E at \in 1..Len(lines) :
          /\ CandidateStart(lines[at])
          /\ Collected(lines, at) >= MinRun
          /\ i = at + Collected(lines, at)
          /\ out # <<>>
          /\ out[Len(out)] = Joined(lines, at, Collected(lines, at))

\* C9: every line collected into a run after the candidate start is non-empty,
\* starts with no "#", "-" or "*", holds no comma and is strictly under 55
\* characters long.
C9_CollectedUnderLimit ==
    [][IsScanStep =>
          \A idx \in (i + 1)..(i' - 1) : Collectable(lines[idx])]_vars

\* C10: applying the function to its own result changes nothing, and the
\* second pass merges no run.
C10_Idempotent ==
    /\ (pass = 2 /\ cpc = "done") => collapsed = first
    /\ (pass = 2 /\ cpc = "scan" /\ i <= Len(lines)) => Branch(lines, i) # "merge"
    /\ (pass = 1 /\ cpc = "done") => collapse_skill_lines(collapsed) = collapsed

\* C10 witness: the second pass has ended on a text that holds a merged run
C10_Witness ==
    /\ pass = 2 /\ cpc = "done"
    /\ Len(lines) >= 2
    /\ \E k \in 1..Len(lines) :
          lines[k] = <<"b", ",", " ", "b", ",", " ", "b">>

-----------------------------------------------------------------------------
(* build_context *)

(* A dict is a function on its keys, a list a sequence.  The skills value,  *)
(* whose type the code tests, carries its type: [kind |-> "dict", entries   *)
(* |-> the (key, value) pairs in the dict's order] or [kind |-> "list",     *)
(* items |-> ...]; so does each value of the skills dict ("list" or "str"). *)

EmptyDict == <<>>

\* bool(v) of a dict, a list or a str
Truthy(v) == DOMAIN v # {}

\* d.get(k, default)
Get(d, k, default) == IF k \in DOMAIN d THEN d[k] ELSE default

\* d.get(k) or default
GetOr(d, k, default) == IF Truthy(Get(d, k, <<>>)) THEN d[k] ELSE default

\* lines 37-50
ProfilePart(d) ==
    LET profile == GetOr(d, "profile", EmptyDict)
        contact == GetOr(profile, "contact", EmptyDict)
        links == GetOr(profile, "links", EmptyDict)
    IN  IF ~Truthy(profile) THEN <<>>
        ELSE << <<"## Profile">>,
                <<"Name:", " ">> \o Get(profile, "name", <<>>),
                <<"Job title:", " ">> \o Get(profile, "jobTitle", <<>>) >>
             \o (IF Truthy(contact)
                 THEN << <<"Email:", " ">> \o Get(contact, "email", <<>>),
                         <<"Phone:", " ">> \o Get(contact, "phone", <<>>) >>
                 ELSE <<>>)
             \o (IF Truthy(links)
                 THEN << <<"GitHub:", " ">> \o Get(links, "github", <<>>),
                         <<"LinkedIn:", " ">> \o Get(links, "linkedin", <<>>) >>
                 ELSE <<>>)
             \o << <<>> >>

\* lines 56-57
JobLines(job) ==
    << <<"-", " ">> \o Get(job, "role", <<>>) \o <<" ", "at", " ">>
           \o Get(job, "company", <<"N/A">>) \o <<" ", "(">>
           \o Get(job, "dates", <<>>) \o <<")">>,
       <<" ", " ">> \o Get(job, "description", <<>>) >>

\* lines 52-58
ExperiencePart(d) ==
    LET experience == GetOr(d, "experience", <<>>)
    IN  IF ~Truthy(experience) THEN <<>>
        ELSE << <<"## Experience">> >>
             \o Flatten([k \in 1..Len(experience) |-> JobLines(experience[k])])
             \o << <<>> >>

\* lines 64-65
ProjectLines(p) ==
    << <<"-", " ">> \o Get(p, "name", <<>>) \o <<" ", "(">>
           \o Get(p, "url", <<>>) \o <<")">>,
       <<" ", " ">> \o Get(p, "description", <<>>) >>

\* lines 60-66
ProjectsPart(d) ==
    LET projects == GetOr(d, "projects", <<>>)
    IN  IF ~Truthy(projects) THEN <<>>
        ELSE << <<"## Projects">> >>
             \o Flatten([k \in 1..Len(projects) |-> ProjectLines(projects[k])])
             \o << <<>> >>

\* lines 72-79
EducationLines(e) ==
    LET line0 == GetOr(e, "degree", GetOr(e, "program", <<>>))
        line1 == IF Truthy(Get(e, "institution", <<>>))
                 THEN line0 \o <<" ", "-", " ">> \o e["institution"]
                 ELSE line0
        line2 == IF Truthy(Get(e, "graduationYear", <<>>)) \/ Truthy(Get(e, "dates", <<>>))
                 THEN line1 \o <<" ", "(">>
                          \o GetOr(e, "graduationYear", Get(e, "dates", <<>>)) \o <<")">>
                 ELSE line1
    IN  << <<"-", " ">> \o line2 >>
        \o (IF Truthy(Get(e, "description", <<>>))
            THEN << <<" ", " ">> \o e["description"] >>
            ELSE <<>>)

\* lines 68-80
EducationPart(d) ==
    LET education == GetOr(d, "education", <<>>)
    IN  IF ~Truthy(education) THEN <<>>
        ELSE << <<"## Education">> >>
             \o Flatten([k \in 1..Len(education) |-> EducationLines(education[k])])
             \o << <<>> >>

NotesKey == <<"n", "o", "t", "e", "s">>

\* bool(v) of a typed value
TruthyTyped(v) ==
    CASE v.kind = "dict" -> v.entries # <<>>
      [] v.kind = "list" -> v.items # <<>>
      [] v.kind = "str" -> v.value # <<>>

\* lines 86-91, for one (key, value) of skills.items()
SkillLines(kv) ==
    LET key == kv[1]
        value == kv[2]
    IN  IF key = NotesKey \/ ~TruthyTyped(value) THEN <<>>
        ELSE IF value.kind = "list"
             THEN << key \o <<":", " ">> \o JoinWith(value.items, <<",", " ">>) >>
        ELSE << key \o <<":", " ">> \o value.value >>

\* skills.get("notes"), None as the empty str
SkillNotes(entries) ==
    LET at == {k \in 1..Len(entries) : entries[k][1] = NotesKey}
    IN  IF at = {} THEN [kind |-> "str", value |-> <<>>] ELSE entries[MaxOf(at)][2]

\* lines 82-93
SkillsPart(d) ==
    LET skills == IF "skills" \in DOMAIN d /\ TruthyTyped(d["skills"])
                  THEN d["skills"]
                  ELSE [kind |-> "dict", entries |-> <<>>]
    IN  IF ~(TruthyTyped(skills) /\ skills.kind = "dict") THEN <<>>
        ELSE << <<"## Skills">> >>
             \o Flatten([k \in 1..Len(skills.entries) |-> SkillLines(skills.entries[k])])
             \o (IF TruthyTyped(SkillNotes(skills.entries))
                 THEN << <<"Notes:", " ">> \o SkillNotes(skills.entries).value >>
                 ELSE <<>>)

\* the sections with Projects written before Experience
SectionPartsSwapped(d) ==
    << ProfilePart(d), ProjectsPart(d), ExperiencePart(d), EducationPart(d), SkillsPart(d) >>

\* what each section appends to parts, in the order of the code
SectionParts(d) ==
    << ProfilePart(d), ExperiencePart(d), ProjectsPart(d), EducationPart(d), SkillsPart(d) >>

\* "\n".join(parts).strip()
build_context(d) == Strip(JoinWith(Flatten(SectionParts(d)), <<NL>>))

(* Inputs of the context builder *)

MaxEntries == 2

ListsOf(pool) == UNION { [1..n -> pool] : n \in 0..MaxEntries }

\* an absent key is the empty tuple, a present one <<value>>
ProfilePool ==
    { <<>>,
      <<EmptyDict>>,
      <<[name |-> <<"m">>]>>,
      <<[name |-> <<"m">>, jobTitle |-> <<"t">>,
         contact |-> [email |-> <<"e">>], links |-> [github |-> <<"g">>]]>> }

JobPool ==
    { [role |-> <<"r">>, company |-> <<"c">>, dates |-> <<"d">>, description |-> <<"x">>],
      [role |-> <<"r">>] }

ProjectPool == { [name |-> <<"p">>, url |-> <<"u">>] }

SchoolPool ==
    { [degree |-> <<"b">>, institution |-> <<"i">>, graduationYear |-> <<"2">>,
       description |-> <<"x">>],
      [program |-> <<"p">>, dates |-> <<"d">>] }

SkillsPool ==
    { <<>>,
      <<[kind |-> "dict", entries |-> <<>>]>>,
      <<[kind |-> "list", items |-> << <<"s">> >>]>>,
      <<[kind |-> "dict", entries |-> << <<NotesKey, [kind |-> "str", value |-> <<>>]>> >>]>>,
      <<[kind |-> "dict",
         entries |-> << << <<"F">>, [kind |-> "list", items |-> << <<"a">>, <<"b">> >>] >>,
                        << <<"E">>, [kind |-> "list", items |-> <<>>] >>,
                        << NotesKey, [kind |-> "str", value |-> <<"n">>] >>,
                        << <<"L">>, [kind |-> "str", value |-> <<"e">>] >> >>]>> }

Optional(S) == {<<>>} \cup {<<v>> : v \in S}

\* the dict whose keys are the fields given
DataOf(p, x, j, e, k) ==
    LET given == [profile |-> p, experience |-> x, projects |-> j, education |-> e,
                  skills |-> k]
    IN  [f \in {g \in DOMAIN given : given[g] # <<>>} |-> given[f][1]]

DataPool ==
    { DataOf(p, x, j, e, k) :
        p \in ProfilePool, x \in Optional(ListsOf(JobPool)),
        j \in Optional(ListsOf(ProjectPool)), e \in Optional(ListsOf(SchoolPool)),
        k \in SkillsPool }

ContextInit ==
    /\ data \in DataPool
    /\ parts = <<>> /\ bpc = 1 /\ context = <<>>

\* one section of the function body, in turn
AddSection ==
    /\ bpc \in 1..Len(SectionParts(data))
    /\ parts' = parts \o SectionParts(data)[bpc]
    /\ bpc' = bpc + 1
    /\ UNCHANGED <<data, context>>
    /\ UNCHANGED <<collapseVars, answerVars>>

\* line 95
ContextReturn ==
    /\ bpc = Len(SectionParts(data)) + 1
    /\ context' = Strip(JoinWith(parts, <<NL>>))
    /\ bpc' = 0
    /\ UNCHANGED <<data, parts>>
    /\ UNCHANGED <<collapseVars, answerVars>>

-----------------------------------------------------------------------------
(* Properties of build_context *)

HeadingOrder ==
    << <<"profile", "## Profile">>, <<"experience", "## Experience">>,
       <<"projects", "## Projects">>, <<"education", "## Education">>,
       <<"skills", "## Skills">> >>

\* the heading lines of a context, in the order they stand in it
HeadingsIn(c) ==
    SelectSeq(SplitLines(c),
              LAMBDA l : \E h \in 1..Len(HeadingOrder) : l = <<HeadingOrder[h][2]>>)

\* the top-level field is present and non-empty, skills a non-empty mapping
FieldGiven(d, f) ==
    /\ f \in DOMAIN d
    /\ IF f = "skills"
       THEN d[f].kind = "dict" /\ Len(d[f].entries) > 0
       ELSE DOMAIN d[f] # {}

\* C7: the headings of the output are those of the fields given, each once,
\* in the order Profile, Experience, Projects, Education, Skills.
C7_SectionOrder ==
    bpc = 0 =>
        HeadingsIn(context) =
            LET given == SelectSeq(HeadingOrder, LAMBDA h : FieldGiven(data, h[1]))
            IN  [k \in 1..Len(given) |-> <<given[k][2]>>]

\* C7 witness: a context built from data with all five sections
C7_Witness ==
    /\ bpc = 0
    /\ \A h \in 1..Len(HeadingOrder) : FieldGiven(data, HeadingOrder[h][1])
    /\ Len(HeadingsIn(context)) = Len(HeadingOrder)

-----------------------------------------------------------------------------
(* answer_question *)

HistoryWindow == 6

ConfigErrorMessage == "GROQ_API_KEY is not set. Add it to backend/.env"
EmptyResponseMessage == "Empty response from Groq"
NoDataMessage == <<"No CV data available to answer from.">>

\* `not api_key`, without the test of api_key.strip()
KeyMissingNoStrip(key) == key = <<>> \/ key[1] = <<>>

\* not api_key or not api_key.strip(); the key is <<>> for None, <<str>> otherwise
KeyMissing(key) == key = <<>> \/ key[1] = <<>> \/ Strip(key[1]) = <<>>

\* `context is None` in place of `not context`
ContextIsNone(c) == FALSE

\* not context
ContextMissing(c) == c = <<>>

\* str.lower(), on the letters the inputs hold
LowerChar(c) ==
    CASE c = "A" -> "a" [] c = "S" -> "s" [] c = "I" -> "i" [] c = "T" -> "t"
      [] c = "N" -> "n" [] c = "U" -> "u" [] c = "E" -> "e" [] c = "R" -> "r"
      [] OTHER -> c

Lower(str) == [k \in 1..Len(str) |-> LowerChar(str[k])]

AssistantRole == <<"a", "s", "s", "i", "s", "t", "a", "n", "t">>
UserRole == <<"u", "s", "e", "r">>

\* history[-6:] without the slice
LastTurnsAll(h) == h

\* history[-6:]
LastTurns(h) ==
    IF Len(h) <= HistoryWindow THEN h ELSE SubSeq(h, Len(h) - HistoryWindow + 1, Len(h))

\* lines 155-159 for one msg: what it appends to parts
TurnPart(msg) ==
    LET role == Lower(GetOr(msg, "role", UserRole))
        content == Strip(GetOr(msg, "content", <<>>))
        label == IF role = AssistantRole THEN "Assistant" ELSE "User"
    IN  IF Truthy(content) THEN <<label, ":", " ">> \o content \o <<NL>> ELSE <<>>

\* lines 151-163
UserContent(ctx, h, q) ==
    <<"CV context:", NL>> \o ctx \o <<NL>>
    \o (IF Truthy(h)
        THEN <<"Recent conversation:", NL>>
                 \o Flatten([k \in 1..Len(LastTurns(h)) |-> TurnPart(LastTurns(h)[k])])
                 \o <<NL>>
        ELSE <<>>)
    \o <<"Current question:", " ">> \o Strip(q)

\* lines 174-175: no first choice, or a first choice without a message
NoChoice(resp) ==
    \/ resp.choices = <<>>
    \/ resp.choices[1].message = <<>>

\* line 177; content is <<>> for None, <<str>> otherwise
RawOf(resp) ==
    LET content == resp.choices[1].message[1].content
    IN  Strip(IF content = <<>> THEN <<>> ELSE content[1])

(* Inputs of answer_question *)

MaxHist == 7

KeyPool == { <<>>, << <<>> >>, << <<" ", "\t">> >>, << <<"k">> >> }

QuestionPool == { <<" ", "q", "?", " ">> }

TurnPool ==
    { [role |-> <<"A", "s", "s", "i", "s", "t", "a", "n", "t">>, content |-> <<" ", "a", " ">>],
      [role |-> <<"s", "y", "s", "t", "e", "m">>, content |-> <<"u">>],
      [content |-> <<" ", "\t">>] }

\* None and the empty list take the same branch of `if history`: both are <<>>
HistoryPool == UNION { [1..n -> TurnPool] : n \in 0..MaxHist }

AnswerDataPool ==
    { DataOf(<<>>, <<>>, <<>>, <<>>, <<>>),
      DataOf(<<>>, <<>>, <<>>, <<>>, <<[kind |-> "list", items |-> << <<"s">> >>]>>),
      DataOf(<<[name |-> <<"m">>]>>, <<>>, <<>>, <<>>, <<>>) }

MessageOf(content) == [choices |-> << [message |-> << [content |-> content] >>] >>]

\* what the collaborator can send back
ResponsePool ==
    { [choices |-> <<>>],
      [choices |-> << [message |-> <<>>] >>],
      MessageOf(<<>>),
      MessageOf(<< <<>> >>),
      MessageOf(<< <<" ", "b", NL, "b", NL, "b", NL>> >>),
      MessageOf(<< <<"c", " ", "d">> >>) }

FaultPool == { "network", "quota" }

AnswerInit ==
    /\ api_key \in KeyPool
    /\ question \in QuestionPool
    /\ history \in HistoryPool
    /\ data \in AnswerDataPool
    /\ pc = "start"
    /\ parts = <<>> /\ bpc = 0 /\ context = <<>>
    /\ user_content = <<>> /\ response = <<>> /\ requests = 0
    /\ error = "" /\ answer = <<>>

\* lines 142-144
CheckKey ==
    /\ pc = "start"
    /\ IF KeyMissing(api_key)
       THEN pc' = "raised" /\ error' = ConfigErrorMessage
       ELSE pc' = "context" /\ error' = error
    /\ UNCHANGED <<api_key, question, history, user_content, response, requests, answer>>
    /\ UNCHANGED contextVars
    /\ UNCHANGED collapseVars

\* lines 146-148
BuildContext ==
    /\ pc = "context"
    /\ parts' = Flatten(SectionParts(data))
    /\ context' = build_context(data)
    /\ IF ContextMissing(context')
       THEN pc' = "returned" /\ answer' = NoDataMessage
       ELSE pc' = "assemble" /\ answer' = answer
    /\ UNCHANGED <<data, bpc>>
    /\ UNCHANGED <<api_key, question, history, user_content, response, requests, error>>
    /\ UNCHANGED collapseVars

\* lines 150-163
Assemble ==
    /\ pc = "assemble"
    /\ user_content' = UserContent(context, history, question)
    /\ pc' = "call"
    /\ UNCHANGED <<api_key, question, history, response, requests, error, answer>>
    /\ UNCHANGED contextVars
    /\ UNCHANGED collapseVars

\* lines 165-173, with a client that calls again after a fault
CallFailsRetry ==
    /\ pc = "call" /\ requests < 3
    /\ requests' = requests + 1
    /\ \E f \in FaultPool : response' = [fault |-> f]
    /\ UNCHANGED <<api_key, question, history, pc, user_content, error, answer>>
    /\ UNCHANGED contextVars
    /\ UNCHANGED collapseVars

\* lines 165-173: the client raises, and nothing here catches it
CallFails ==
    /\ pc = "call"
    /\ requests' = requests + 1
    /\ \E f \in FaultPool :
          /\ response' = [fault |-> f]
          /\ error' = f
    /\ pc' = "raised"
    /\ UNCHANGED <<api_key, question, history, user_content, answer>>
    /\ UNCHANGED contextVars
    /\ UNCHANGED collapseVars

\* lines 165-173: the client returns a response
CallReturns ==
    /\ pc = "call"
    /\ requests' = requests + 1
    /\ response' \in ResponsePool
    /\ pc' = "response"
    /\ UNCHANGED <<api_key, question, history, user_content, error, answer>>
    /\ UNCHANGED contextVars
    /\ UNCHANGED collapseVars

\* lines 174-178
HandleResponse ==
    /\ pc = "response"
    /\ IF NoChoice(response)
       THEN pc' = "raised" /\ error' = EmptyResponseMessage /\ answer' = answer
       ELSE pc' = "returned" /\ answer' = collapse_skill_lines(RawOf(response))
                /\ error' = error
    /\ UNCHANGED <<api_key, question, history, user_content, response, requests>>
    /\ UNCHANGED contextVars
    /\ UNCHANGED collapseVars

-----------------------------------------------------------------------------
(* Properties of answer_question *)

\* the credential is absent, empty or made of whitespace only
CredentialBlank ==
    \/ api_key = <<>>
    \/ \A k \in 1..Len(api_key[1]) : api_key[1][k] \in {" ", "\t", "\n"}

\* C1: with the credential absent, empty or whitespace-only the invocation
\* can only raise the configuration error, and makes no request.
C1_MissingCredentialRaises ==
    (pc # "idle" /\ CredentialBlank) =>
        /\ requests = 0
        /\ pc \in {"start", "raised"}
        /\ pc = "raised" => error = ConfigErrorMessage
        /\ answer = <<>> /\ user_content = <<>> /\ response = <<>>

\* C1 witness: a whitespace-only credential and empty CV data, raised
C1_Witness ==
    /\ pc = "raised" /\ error = ConfigErrorMessage
    /\ api_key # <<>> /\ api_key[1] # <<>> /\ CredentialBlank
    /\ data = <<>>
    /\ history # <<>>

\* C2: with a credential and CV data whose context is empty, the invocation
\* returns the fallback literal and makes no request.
C2_EmptyContextFallback ==
    (pc # "idle" /\ ~CredentialBlank /\ build_context(data) = <<>>) =>
        /\ requests = 0
        /\ pc \in {"start", "context", "returned"}
        /\ pc = "returned" => answer = NoDataMessage
        /\ error = "" /\ user_content = <<>> /\ response = <<>>

\* C2 witness: the fallback returned for CV data that is not the empty dict
C2_Witness ==
    /\ pc = "returned" /\ answer = NoDataMessage /\ requests = 0
    /\ ~CredentialBlank
    /\ data # <<>>

\* the response came back with no choices, or with a first choice that has no
\* message, or a message whose content is absent or empty
NoUsableContent ==
    /\ DOMAIN response = {"choices"}
    /\ \/ response.choices = <<>>
       \/ response.choices[1].message = <<>>
       \/ response.choices[1].message[1].content = <<>>
       \/ response.choices[1].message[1].content = << <<>> >>

\* C3: a response with no choices or no message content makes the invocation
\* fail with the empty-response error and return no answer.
C3_EmptyResponseRaises ==
    (pc \in {"returned", "raised"} /\ NoUsableContent) =>
        pc = "raised" /\ error = EmptyResponseMessage

\* the turn lines of a request body, in the order they stand in it
RenderedTurns(body) ==
    SelectSeq(SplitLines(body), LAMBDA l : l # <<>> /\ l[1] \in {"Assistant", "User"})

\* the content of a turn, trimmed; <<>> when there is none
TrimmedContent(msg) ==
    IF "content" \in DOMAIN msg THEN Strip(msg["content"]) ELSE <<>>

\* the role of a turn equals "assistant" when case is ignored
IsAssistant(msg) ==
    /\ "role" \in DOMAIN msg
    /\ Len(msg["role"]) = Len(AssistantRole)
    /\ \A k \in 1..Len(AssistantRole) :
          LowerChar(msg["role"][k]) = AssistantRole[k]

\* the k-th entry, in increasing order, of a finite set of numbers
RECURSIVE Ascending(_)
Ascending(S) ==
    IF S = {} THEN <<>> ELSE <<MinOf(S)>> \o Ascending(S \ {MinOf(S)})

\* C4: the turns in the request body are the entries among the last
\* min(n, 6) of the history whose trimmed content is non-empty, in order,
\* labelled Assistant or User.
C4_HistoryWindow ==
    pc \in {"call", "response", "returned", "raised"} /\ user_content # <<>> =>
        LET n == Len(history)
            kept == Ascending({k \in 1..n : k > n - HistoryWindow
                                              /\ TrimmedContent(history[k]) # <<>>})
        IN  RenderedTurns(user_content) =
                [m \in 1..Len(kept) |->
                    <<IF IsAssistant(history[kept[m]]) THEN "Assistant" ELSE "User",
                      ":", " ">> \o TrimmedContent(history[kept[m]])]

\* C4 witness: a request body built from more than six turns, the oldest of
\* them with content, and an entry without content inside the window
C4_Witness ==
    /\ pc = "call"
    /\ Len(history) > HistoryWindow
    /\ TrimmedContent(history[1]) # <<>>
    /\ \E k \in 1..Len(history) :
          k > Len(history) - HistoryWindow /\ TrimmedContent(history[k]) = <<>>
    /\ \E k \in 1..Len(history) :
          k > Len(history) - HistoryWindow /\ IsAssistant(history[k])
                                           /\ TrimmedContent(history[k]) # <<>>

\* C8: at most one request per invocation, exactly one once an invocation
\* with a credential and a non-empty context has ended; the request comes
\* after both checks; a fault ends the invocation with the fault as the error
\* and no answer.
C8_SingleRequest ==
    /\ requests <= 1
    /\ requests = 1 =>
          /\ ~CredentialBlank
          /\ build_context(data) # <<>>
          /\ pc \in {"response", "returned", "raised"}
    /\ (pc \in {"returned", "raised"} /\ ~CredentialBlank /\ build_context(data) # <<>>)
          => requests = 1
    /\ pc \in {"call", "response"} => ~CredentialBlank /\ context # <<>>
    /\ (response # <<>> /\ "fault" \in DOMAIN response) =>
          /\ pc = "raised"
          /\ error = response.fault
          /\ answer = <<>>
          /\ requests = 1

\* C8 witness: an invocation ended by a collaborator fault after one request
C8_Witness ==
    /\ pc = "raised" /\ requests = 1
    /\ response # <<>> /\ "fault" \in DOMAIN response
    /\ error = response.fault

ContextIdle ==
    /\ data = <<>> /\ parts = <<>> /\ bpc = 0 /\ context = <<>>

AnswerIdle ==
    /\ api_key = <<>> /\ question = <<>> /\ history = <<>> /\ pc = "idle"
    /\ user_content = <<>> /\ response = <<>> /\ requests = 0
    /\ error = "" /\ answer = <<>>

InitCollapse == CollapseInit /\ ContextIdle /\ AnswerIdle

NextCollapse ==
    \/ CollapseSplit
    \/ EmitHeader
    \/ MergeRun
    \/ EmitLine
    \/ CollapseReturn
    \/ CollapseAgain

SpecCollapse == InitCollapse /\ [][NextCollapse]_vars

InitContext == ContextInit /\ CollapseIdle /\ AnswerIdle

NextContext ==
    \/ AddSection
    \/ ContextReturn

SpecContext == InitContext /\ [][NextContext]_vars

Init == AnswerInit /\ CollapseIdle

Next ==
    \/ CheckKey
    \/ BuildContext
    \/ Assemble
    \/ CallFails
    \/ CallReturns
    \/ HandleResponse

Spec == Init /\ [][Next]_vars

====
